---------------------------- MODULE Spec2Model ----------------------------
(***************************************************************************)
(* Model of the certificate server's PDF placeholder engine                *)
(* (app/routes/generate_routes.py, replace_placeholders_in_pdf) and of the *)
(* batch sender that drives it (app/routes/email_routes.py,                *)
(* send_certificates).                                                     *)
(*                                                                         *)
(* Text is a sequence of one-character atoms; "NL" stands for the newline  *)
(* character.  Coordinates are exact rationals: a rectangle carries the    *)
(* numerators of its four coordinates and one common denominator `den`.    *)
(* Python computes the same expressions in binary floating point; rounding *)
(* is not modelled.                                                        *)
(***************************************************************************)
EXTENDS Integers, Sequences, FiniteSets, TLC

(***************************************************************************)
(* Bounds of the model.                                                    *)
(***************************************************************************)
MaxLen == 5        \* span texts of every length up to MaxLen are enumerated
MaxPieces == 3     \* span texts built from up to MaxPieces token-sized pieces
MaxRows == 2       \* rows of the CSV of one batch

(***************************************************************************)
(* Program constants.                                                      *)
(***************************************************************************)
RectMargin == 2        \* x0 - 2, y0 - 2, y1 + 2
ExpandNum == 3         \* the factor 1.5 = ExpandNum / ExpandDen
ExpandDen == 2

Alphabet == {"<", ">", "A", "B", " ", "NL"}
Whitespace == {" ", "NL"}

Max(a, b) == IF a >= b THEN a ELSE b

(***************************************************************************)
(* str.strip(): drop leading and trailing whitespace.                      *)
(***************************************************************************)
RECURSIVE LStrip(_)
LStrip(s) ==
    IF s # <<>> /\ Head(s) \in Whitespace THEN LStrip(Tail(s)) ELSE s

RECURSIVE RStrip(_)
RStrip(s) ==
    IF s # <<>> /\ s[Len(s)] \in Whitespace
    THEN RStrip(SubSeq(s, 1, Len(s) - 1))
    ELSE s

Strip(s) == RStrip(LStrip(s))

(***************************************************************************)
(* PLACEHOLDER_RE = re.compile(r"<<(.*?)>>").  FindClose is the lazy       *)
(* `.*?>>` from 1-based position j: `.` takes one character that is not a  *)
(* newline, and the first `>>` reached ends the match; 0 when the text     *)
(* ends or a newline is met first.                                         *)
(***************************************************************************)
\* FindClose of the greedy pattern <<(.*)>>: the last `>>` that no newline
\* separates from position j
FindCloseGreedy(s, j) ==
    LET ends == {c \in j..(Len(s) - 1) :
                    /\ s[c] = ">" /\ s[c + 1] = ">"
                    /\ \A i \in j..(c - 1) : s[i] # "NL"}
    IN  IF ends = {} THEN 0 ELSE CHOOSE c \in ends : \A d \in ends : d <= c

RECURSIVE FindClose(_, _)
FindClose(s, j) ==
    IF j + 1 > Len(s) THEN 0
    ELSE IF s[j] = ">" /\ s[j + 1] = ">" THEN j
    ELSE IF s[j] = "NL" THEN 0
    ELSE FindClose(s, j + 1)

(***************************************************************************)
(* PLACEHOLDER_RE.finditer(span_text) scanning from 1-based position p:    *)
(* the leftmost position where the pattern matches, then the scan resumes  *)
(* right after that match.  A match is [start, end) in Python's 0-based    *)
(* offsets, as match.span() returns it.                                    *)
(***************************************************************************)
RECURSIVE FindIterFrom(_, _)
FindIterFrom(s, p) ==
    IF p + 3 > Len(s) THEN <<>>
    ELSE IF s[p] = "<" /\ s[p + 1] = "<" /\ FindClose(s, p + 2) # 0
         THEN LET c == FindClose(s, p + 2)
              IN  <<[start |-> p - 1, end |-> c + 1]>> \o FindIterFrom(s, c + 2)
         ELSE FindIterFrom(s, p + 1)

FindIter(s) == FindIterFrom(s, 1)

\* match.group(1): the text between the brackets
Group1(s, m) == SubSeq(s, m.start + 3, m.end - 2)

\* match.group(1).strip()
PlaceholderKey(s, m) == Strip(Group1(s, m))


(***************************************************************************)
(* A CSV cell as pandas.read_csv delivers it: NaN for an empty cell,       *)
(* otherwise the cell's text.  str(NaN) is "nan".                          *)
(***************************************************************************)
Cell(t) == [na |-> FALSE, s |-> t]
NaN == [na |-> TRUE, s |-> <<>>]
Str(c) == IF c.na THEN <<"n", "a", "n">> ELSE c.s

\* row.get(csv_col, ""): the cell of the column, "" when the row has no such column
RowGet(row, col) == IF col \in DOMAIN row THEN row[col] ELSE Cell(<<>>)

\* placeholder_key not in mappings
NotInMappings(key, mappings) == key \notin DOMAIN mappings

\* replacement_text = str(row.get(csv_col, "")).strip()
ReplacementText(key, mappings, row) == Strip(Str(RowGet(row, mappings[key])))

(***************************************************************************)
(* Geometry of one match inside a span (lines 54-67).  total_chars =        *)
(* max(len(span_text), 1) is the denominator of placeholder_rect;           *)
(* adjusted_rect has the denominator total_chars * ExpandDen.               *)
(***************************************************************************)
\* TotalChars counting one character too few
TotalCharsShort(span) == Max(Len(span.text) - 1, 1)

TotalChars(span) == Max(Len(span.text), 1)

\* span_rect.width, for a span whose bbox has x0 <= x1
RectWidth(span) == span.x1 - span.x0

PlaceholderRect(span, m) ==
    LET T == TotalChars(span)
        W == RectWidth(span)
    IN  [x0 |-> span.x0 * T + W * m.start,
         y0 |-> span.y0 * T,
         x1 |-> span.x0 * T + W * m.end,
         y1 |-> span.y1 * T,
         den |-> T]

AdjustedRect(span, m, replacement_text) ==
    LET T == TotalChars(span)
        W == RectWidth(span)
        r == PlaceholderRect(span, m)
    IN  [x0 |-> (r.x0 - RectMargin * T) * ExpandDen,
         y0 |-> (span.y0 - RectMargin) * T * ExpandDen,
         x1 |-> r.x1 * ExpandDen + W * Len(replacement_text) * ExpandNum,
         y1 |-> (span.y1 + RectMargin) * T * ExpandDen,
         den |-> T * ExpandDen]

(***************************************************************************)
(* The body of the loop over matches (lines 42-76) for one match: no entry *)
(* when the key is unmapped or the replacement text is empty, otherwise    *)
(* the entry appended to placeholder_data.  `src` (where the match is:     *)
(* page, block, span, start offset) and `key` are not fields of the        *)
(* program's dict; they identify the match in the properties.              *)
(***************************************************************************)
\* MatchOccurrence without the `not in mappings` test: an unmapped key is
\* replaced by its own text
MatchOccurrenceUnchecked(span, m, mappings, row, at) ==
    LET placeholder_key == PlaceholderKey(span.text, m)
        replacement_text ==
            IF NotInMappings(placeholder_key, mappings) THEN placeholder_key
            ELSE ReplacementText(placeholder_key, mappings, row)
    IN  IF replacement_text = <<>> THEN <<>>
        ELSE <<[rect |-> PlaceholderRect(span, m),
                insert_rect |-> AdjustedRect(span, m, replacement_text),
                text |-> replacement_text,
                fontsize |-> span.size,
                fontname |-> span.font,
                color |-> "black",
                key |-> placeholder_key,
                src |-> at \o <<m.start>>]>>

MatchOccurrence(span, m, mappings, row, at) ==
    LET placeholder_key == PlaceholderKey(span.text, m)
    IN  IF NotInMappings(placeholder_key, mappings) THEN <<>>
        ELSE LET replacement_text == ReplacementText(placeholder_key, mappings, row)
             IN  IF replacement_text = <<>> THEN <<>>
                 ELSE <<[rect |-> PlaceholderRect(span, m),
                         insert_rect |-> AdjustedRect(span, m, replacement_text),
                         text |-> replacement_text,
                         fontsize |-> span.size,
                         fontname |-> span.font,
                         color |-> "black",
                         key |-> placeholder_key,
                         src |-> at \o <<m.start>>]>>

RECURSIVE MatchesOccurrences(_, _, _, _, _)
MatchesOccurrences(span, ms, mappings, row, at) ==
    IF ms = <<>> THEN <<>>
    ELSE MatchOccurrence(span, Head(ms), mappings, row, at)
         \o MatchesOccurrences(span, Tail(ms), mappings, row, at)

\* for match in PLACEHOLDER_RE.finditer(span_text): ... (lines 38-77)
SpanOccurrences(span, mappings, row, at) ==
    MatchesOccurrences(span, FindIter(span.text), mappings, row, at)

(***************************************************************************)
(* The spans of a page in the order the three nested loops visit them      *)
(* (lines 33-37): blocks in order, only text blocks (type 0), each block's *)
(* spans in order.  An element is the position <<block, span>>.            *)
(***************************************************************************)
RECURSIVE SpansFrom(_, _)
SpansFrom(blocks, b) ==
    IF b > Len(blocks) THEN <<>>
    ELSE (IF blocks[b].type # 0 THEN <<>>
          ELSE [i \in 1..Len(blocks[b].spans) |-> <<b, i>>])
         \o SpansFrom(blocks, b + 1)

PageSpans(page) == SpansFrom(page, 1)


(***************************************************************************)
(* Inputs of one send_certificates request.                                *)
(***************************************************************************)
Tok(key) == <<"<", "<">> \o key \o <<">", ">">>

Span(text, font, color) ==
    [text |-> text, x0 |-> 10, y0 |-> 20, x1 |-> 10 + 7 * Len(text), y1 |-> 32,
     size |-> 12, font |-> font, color |-> color]

TextBlock(spans) == [type |-> 0, spans |-> spans]
ImageBlock == [type |-> 1, spans |-> <<>>]

\* one page, one span holding a mapped and an unmapped token
TemplateOne ==
    << <<TextBlock(<<Span(Tok(<<"A">>) \o Tok(<<"C">>), "Times", "red")>>)>> >>

\* two pages; keys padded with blanks, a key whose column no row has (D), an
\* image block, and text around a token
TemplateTwo ==
    << <<TextBlock(<<Span(Tok(<<" ", "A", " ">>), "Times", "red"),
                     Span(<<"x">> \o Tok(<<"B">>), "Arial", "black")>>)>>,
       <<ImageBlock,
         TextBlock(<<Span(Tok(<<"D">>), "Times", "black"),
                     Span(Tok(<<"A">>) \o Tok(<<"B">>), "Arial", "red")>>)>> >>

Templates == {TemplateOne, TemplateTwo}

Mappings ==
    { (<<"A">> :> "X") @@ (<<"B">> :> "Y") @@ (<<"D">> :> "Z"),
      (<<"A">> :> "Y") }

\* the rows a CSV is made of: complete; an empty cell (NaN) in a mapped
\* column and a blank one; no e-mail address
RowKinds ==
    { [X |-> Cell(<<"1">>), Y |-> Cell(<<"2", "2">>), Email |-> Cell(<<" ", "e">>)],
      [X |-> NaN, Y |-> Cell(<<" ">>), Email |-> Cell(<<"f">>)],
      [X |-> Cell(<<"3">>), Y |-> NaN, Email |-> NaN] }

DataFrames == UNION { [1..n -> RowKinds] : n \in 0..MaxRows }

EmailColumns == {"Email", "Mail"}

VARIABLES
    template,          \* the pages of the PDF at template_path
    mapping,           \* request.mapping
    df,                \* pd.read_csv(csv_path)
    emailColumn,       \* request.emailColumn
    bpc,               \* where send_certificates is
    idx,               \* index label of the current row (0-based)
    sent_count,
    failed,            \* the failure entries, in order
    files,             \* the certificate files present in OUTPUT_DIR, by row number
    pc,                \* where replace_placeholders_in_pdf is
    page_no,           \* the current page (1-based)
    si,                \* next span of the first pass, an index into PageSpans
    placeholder_data,  \* the current page's occurrences
    k,                 \* next entry of placeholder_data in the second / third pass
    doc,               \* the open document: what was done to each page
    session_data,      \* the process-wide dict of app.session_data
    hpc,               \* where each caller's request handler is
    locals             \* each caller's handler's local variables

vars == <<template, mapping, df, emailColumn, bpc, idx, sent_count, failed, files,
          pc, page_no, si, placeholder_data, k, doc, session_data, hpc, locals>>

\* the callers whose requests the server handles at the same time
Callers == {1, 2}

\* the server as the handlers of concurrent requests see it
server == <<session_data, hpc, locals>>

\* session_data before any request: no key is set (get returns None, here 0)
SessionEmpty ==
    [template_file |-> 0, csv_file |-> 0, mappings |-> 0, email_column |-> 0]

\* a handler's locals before it has assigned any
NoLocals == [template_file |-> 0, csv_file |-> 0, mappings |-> 0, idx |-> 0, rows |-> 0]

ServerIdle ==
    /\ session_data = SessionEmpty
    /\ hpc = [c \in Callers |-> "idle"]
    /\ locals = [c \in Callers |-> NoLocals]

\* what one send_certificates request only reads, and what it has no part in
inputs == <<template, mapping, df, emailColumn, server>>
batch == <<bpc, idx, sent_count, failed>>
engine == <<pc, page_no, si, placeholder_data, k, doc>>

\* a page of a freshly opened document: nothing registered, committed or inserted
FreshPage ==
    [annots |-> <<>>,      \* redaction annotations registered and not yet applied
     commits |-> 0,        \* calls of apply_redactions
     redacted |-> {},      \* src of the occurrences whose region was removed
     located |-> <<>>,     \* the occurrences the first pass ended with
     log |-> <<>>]         \* the insertion attempts, in order

Init ==
    /\ template \in Templates
    /\ mapping \in Mappings
    /\ df \in DataFrames
    /\ emailColumn \in EmailColumns
    /\ bpc = "request"
    /\ idx = 0
    /\ sent_count = 0
    /\ failed = <<>>
    /\ files = {}
    /\ pc = "idle"
    /\ page_no = 0
    /\ si = 0
    /\ placeholder_data = <<>>
    /\ k = 0
    /\ doc = <<>>
    /\ ServerIdle


(***************************************************************************)
(* replace_placeholders_in_pdf(template_path, output_file, mapping, row)   *)
(* for the row at idx, one step per statement that touches the document.   *)
(***************************************************************************)
Row == df[idx + 1]
Page == template[page_no]
Spans == PageSpans(Page)

\* doc = fitz.open(input_path); raises when the file is no readable document.
\* The call starts with fresh locals.
Open ==
    /\ pc = "open"
    /\ \E ok \in BOOLEAN :
          IF ok
          THEN /\ doc' = [p \in 1..Len(template) |-> FreshPage]
               /\ page_no' = 1
               /\ pc' = "page"
          ELSE /\ pc' = "raised"
               /\ doc' = <<>>
               /\ page_no' = 0
    /\ placeholder_data' = <<>>
    /\ si' = 0
    /\ k' = 0
    /\ UNCHANGED <<inputs, batch, files>>

\* for page in doc: placeholder_data = []; text_instances = page.get_text("dict")
PageBegin ==
    /\ pc = "page"
    /\ page_no <= Len(template)
    /\ \E ok \in BOOLEAN :
          IF ok
          THEN /\ placeholder_data' = <<>>
               /\ si' = 1
               /\ pc' = "locate"
          ELSE /\ pc' = "raised"
               /\ UNCHANGED <<placeholder_data, si>>
    /\ UNCHANGED <<inputs, batch, files, page_no, k, doc>>

\* first pass, one span: every match of the span that is not skipped is appended
LocateSpan ==
    /\ pc = "locate"
    /\ si <= Len(Spans)
    /\ LET b == Spans[si][1]
           i == Spans[si][2]
           span == Page[b].spans[i]
       IN  placeholder_data' =
               placeholder_data
               \o SpanOccurrences(span, mapping, Row, <<page_no, b, i>>)
    /\ si' = si + 1
    /\ UNCHANGED <<inputs, batch, files, pc, page_no, k, doc>>

\* the first pass has visited every span
LocateDone ==
    /\ pc = "locate"
    /\ si > Len(Spans)
    /\ doc' = [doc EXCEPT ![page_no].located = placeholder_data]
    /\ k' = 1
    /\ pc' = "redact"
    /\ UNCHANGED <<inputs, batch, files, page_no, si, placeholder_data>>

\* LoopOver of a loop that is left after its first entry
LoopOverAfterFirst(j, data) == j > 1 \/ j > Len(data)

\* the loop `for data in placeholder_data` has no entry left at position j
LoopOver(j, data) == j > Len(data)

\* second pass: page.add_redact_annot(data["rect"], fill=None)
AddRedactAnnot ==
    /\ pc = "redact"
    /\ ~LoopOver(k, placeholder_data)
    /\ doc' = [doc EXCEPT ![page_no].annots =
                  Append(@, [rect |-> placeholder_data[k].rect,
                             src |-> placeholder_data[k].src])]
    /\ k' = k + 1
    /\ UNCHANGED <<inputs, batch, files, pc, page_no, si, placeholder_data>>

\* page.apply_redactions(images=fitz.PDF_REDACT_IMAGE_NONE): removes what lies
\* in the registered regions and drops the annotations
ApplyRedactions ==
    /\ pc = "redact"
    /\ LoopOver(k, placeholder_data)
    /\ \E ok \in BOOLEAN :
          IF ok
          THEN /\ doc' = [doc EXCEPT
                            ![page_no].commits = @ + 1,
                            ![page_no].redacted =
                                @ \cup {doc[page_no].annots[j].src :
                                           j \in 1..Len(doc[page_no].annots)},
                            ![page_no].annots = <<>>]
               /\ k' = 1
               /\ pc' = "insert"
          ELSE /\ pc' = "raised"
               /\ UNCHANGED <<doc, k>>
    /\ UNCHANGED <<inputs, batch, files, page_no, si, placeholder_data>>

\* what page.insert_textbox can do: write the text ("placed"); return a
\* negative number without writing because the text does not fit the box
\* ("nofit"), the return value being ignored; or raise ("raised")
TextboxOutcomes == {"placed", "nofit", "raised"}

\* what page.insert_text can do
TextOutcomes == {"placed", "raised"}

\* TextboxCall that always asks for the built-in font
TextboxCallHelv(data, outcome) ==
    [src |-> data.src, call |-> "insert_textbox", outcome |-> outcome,
     at |-> data.insert_rect, text |-> data.text, fontsize |-> data.fontsize,
     fontname |-> "helv", color |-> data.color, align |-> 0]

\* page.insert_textbox(insert_rect, text, fontsize=, fontname=, color=, align=0)
TextboxCall(data, outcome) ==
    [src |-> data.src, call |-> "insert_textbox", outcome |-> outcome,
     at |-> data.insert_rect, text |-> data.text, fontsize |-> data.fontsize,
     fontname |-> data.fontname, color |-> data.color, align |-> 0]

\* data["insert_rect"].tl + (0, data["fontsize"] * 1), fontname="helv", color=(0, 0, 0)
TextCall(data, outcome) ==
    [src |-> data.src, call |-> "insert_text", outcome |-> outcome,
     at |-> [x |-> data.insert_rect.x0,
             y |-> data.insert_rect.y0 + data.fontsize * data.insert_rect.den,
             den |-> data.insert_rect.den],
     text |-> data.text, fontsize |-> data.fontsize,
     fontname |-> "helv", color |-> "black"]

\* where the third pass goes when insert_textbox raised
AfterTextboxRaised == "fallback"

\* AfterTextRaised with the inner `except` missing: the exception leaves the call
AfterTextRaisedPropagates == "raised"

\* where the third pass goes when insert_text raised: the exception is
\* printed and the loop goes on
AfterTextRaised == "insert"

\* third pass: try: page.insert_textbox(...)
InsertTextbox ==
    /\ pc = "insert"
    /\ ~LoopOver(k, placeholder_data)
    /\ \E outcome \in TextboxOutcomes :
          /\ doc' = [doc EXCEPT ![page_no].log =
                        Append(@, TextboxCall(placeholder_data[k], outcome))]
          /\ IF outcome = "raised"
             THEN /\ pc' = AfterTextboxRaised
                  /\ k' = k
             ELSE /\ pc' = "insert"
                  /\ k' = k + 1
    /\ UNCHANGED <<inputs, batch, files, page_no, si, placeholder_data>>

\* except Exception: try: page.insert_text(...) except Exception: print
InsertText ==
    /\ pc = "fallback"
    /\ \E outcome \in TextOutcomes :
          /\ doc' = [doc EXCEPT ![page_no].log =
                        Append(@, TextCall(placeholder_data[k], outcome))]
          /\ pc' = IF outcome = "raised" THEN AfterTextRaised ELSE "insert"
    /\ k' = k + 1
    /\ UNCHANGED <<inputs, batch, files, page_no, si, placeholder_data>>

\* the third pass is over: next page
PageDone ==
    /\ pc = "insert"
    /\ LoopOver(k, placeholder_data)
    /\ page_no' = page_no + 1
    /\ pc' = "page"
    /\ UNCHANGED <<inputs, batch, files, si, placeholder_data, k, doc>>

\* doc.save(output_path, garbage=4, deflate=True); doc.close()
Save ==
    /\ pc = "page"
    /\ page_no > Len(template)
    /\ \E ok \in BOOLEAN :
          IF ok
          THEN /\ files' = files \cup {idx + 1}
               /\ pc' = "closed"
          ELSE /\ pc' = "raised"
               /\ UNCHANGED files
    /\ UNCHANGED <<inputs, batch, page_no, si, placeholder_data, k, doc>>

EngineNext ==
    \/ Open \/ PageBegin \/ LocateSpan \/ LocateDone \/ AddRedactAnnot
    \/ ApplyRedactions \/ InsertTextbox \/ InsertText \/ PageDone \/ Save


(***************************************************************************)
(* send_certificates(request).                                             *)
(***************************************************************************)
\* lines 223-243: the file names are validated, both files must exist, the
\* CSV is read, the counters start empty
StartBatch ==
    /\ bpc = "request"
    /\ \E ok \in BOOLEAN : bpc' = IF ok THEN "loop" ELSE "rejected"
    /\ UNCHANGED <<inputs, idx, sent_count, failed, files, engine>>

\* recipient = row.get(request.emailColumn);
\* pd.isna(recipient) or not str(recipient).strip()
MissingEmail(row) ==
    LET recipient == IF emailColumn \in DOMAIN row THEN row[emailColumn] ELSE NaN
    IN  recipient.na \/ Strip(Str(recipient)) = <<>>

\* f"Row {idx+1}: <reason> - {str(error)}"
Failure(reason, error) == [row |-> idx + 1, reason |-> reason, error |-> error]

\* AfterRowFailure of a handler that re-raises: the request ends
AfterRowFailureAborts == "error"

\* where send_certificates goes after recording a failure of the row: continue
AfterRowFailure == "loop"

\* lines 246-249
RowMissingEmail ==
    /\ bpc = "loop"
    /\ idx < Len(df)
    /\ MissingEmail(Row)
    /\ failed' = Append(failed, Failure("Missing email", ""))
    /\ idx' = idx + 1
    /\ UNCHANGED <<inputs, bpc, sent_count, files, engine>>

\* lines 251-258: the call of replace_placeholders_in_pdf
RowGenerate ==
    /\ bpc = "loop"
    /\ idx < Len(df)
    /\ ~MissingEmail(Row)
    /\ bpc' = "generate"
    /\ pc' = "open"
    /\ UNCHANGED <<inputs, idx, sent_count, failed, files,
                   page_no, si, placeholder_data, k, doc>>

\* lines 259-261: the call returned; the document it wrote is kept in view
\* until the row is done
GenerateReturned ==
    /\ bpc = "generate"
    /\ pc = "closed"
    /\ pc' = "idle"
    /\ IF idx + 1 \in files
       THEN /\ bpc' = "send"
            /\ UNCHANGED <<idx, failed>>
       ELSE /\ failed' = Append(failed, Failure("PDF generation failed",
                                                 "file not created"))
            /\ idx' = idx + 1
            /\ bpc' = AfterRowFailure
    /\ UNCHANGED <<inputs, sent_count, files, page_no, si, placeholder_data, k, doc>>

\* nothing of the finished call is left: its document is closed or dropped
CallOver ==
    /\ pc' = "idle"
    /\ page_no' = 0
    /\ si' = 0
    /\ placeholder_data' = <<>>
    /\ k' = 0
    /\ doc' = <<>>

\* lines 262-266: the call raised
GenerateRaised ==
    /\ bpc = "generate"
    /\ pc = "raised"
    /\ CallOver
    /\ failed' = Append(failed, Failure("PDF generation failed", "raised"))
    /\ idx' = idx + 1
    /\ bpc' = AfterRowFailure
    /\ UNCHANGED <<inputs, sent_count, files>>

\* lines 269-291: the e-mail is built and sent, the counter incremented, the
\* sent file removed; an exception anywhere in the block records a failure
SendEmail ==
    /\ bpc = "send"
    /\ \E sent \in BOOLEAN, removed \in BOOLEAN :
          IF sent /\ idx + 1 \in files
          THEN /\ sent_count' = sent_count + 1
               /\ IF removed
                  THEN /\ files' = files \ {idx + 1}
                       /\ bpc' = "loop"
                       /\ UNCHANGED failed
                  ELSE /\ failed' = Append(failed, Failure("Email failed", "os.remove"))
                       /\ bpc' = AfterRowFailure
                       /\ UNCHANGED files
          ELSE /\ failed' = Append(failed, Failure("Email failed", "send"))
               /\ bpc' = AfterRowFailure
               /\ UNCHANGED <<sent_count, files>>
    /\ idx' = idx + 1
    /\ CallOver
    /\ UNCHANGED inputs

\* lines 293-313: every file left in OUTPUT_DIR is removed and the counts are
\* returned; an os.remove that raises ends the request with an error
FinalCleanup ==
    /\ bpc = "loop"
    /\ idx >= Len(df)
    /\ \E ok \in BOOLEAN :
          IF ok \/ files = {}
          THEN /\ files' = {}
               /\ bpc' = "done"
          ELSE /\ bpc' = "error"
               /\ UNCHANGED files
    /\ UNCHANGED <<inputs, idx, sent_count, failed, engine>>

BatchNext ==
    \/ StartBatch \/ RowMissingEmail \/ RowGenerate \/ GenerateReturned
    \/ GenerateRaised \/ SendEmail \/ FinalCleanup

Next == EngineNext \/ BatchNext

Spec == Init /\ [][Next]_vars


(***************************************************************************)
(* What the properties speak of.                                           *)
(***************************************************************************)
Range(seq) == {seq[j] : j \in 1..Len(seq)}

\* every token match of page p of the template: where it is, its trimmed key
PageMatches(p) ==
    UNION { LET text == template[p][at[1]].spans[at[2]].text
            IN  { [src |-> <<p, at[1], at[2], m.start>>,
                   key |-> PlaceholderKey(text, m)] : m \in Range(FindIter(text)) } :
            at \in Range(PageSpans(template[p])) }

\* the matches of page p the document holds any trace of: an occurrence, a
\* redaction annotation, a removed region, an insertion attempt
Touched(p) ==
    {d.src : d \in {e \in Range(placeholder_data) : e.src[1] = p}}
    \cup {d.src : d \in Range(doc[p].located)}
    \cup {a.src : a \in Range(doc[p].annots)}
    \cup doc[p].redacted
    \cup {e.src : e \in Range(doc[p].log)}

\* the text written for the match at src on page p
Placed(p, src) ==
    {e \in Range(doc[p].log) : e.src = src /\ e.outcome = "placed"}

\* the engine is at work on, or has just returned for, the row at idx
Generating == bpc = "generate" /\ pc # "open"

\* C1: a token match whose trimmed key is not a key of the mapping gets no
\* occurrence, no redaction region and no inserted text: the token stays.
C1_UnmappedUntouched ==
    \A p \in 1..Len(doc) : \A m \in PageMatches(p) :
        m.key \notin DOMAIN mapping => m.src \notin Touched(p)

\* a saved document with an unmapped token next to a token that was replaced
C1_Witness ==
    /\ pc = "closed"
    /\ \E p \in 1..Len(doc) : \E m, n \in PageMatches(p) :
          /\ m.key \notin DOMAIN mapping
          /\ n.src \in doc[p].redacted
          /\ Placed(p, n.src) # {}

\* the row has no value for the column: no such column, an empty cell, or
\* text that is empty once trimmed
NoValue(row, col) ==
    \/ col \notin DOMAIN row
    \/ row[col].na
    \/ Strip(row[col].s) = <<>>

\* C2: a match whose key is mapped to a column the row has no value for
\* (column absent, value missing, or empty after trimming) is skipped like an
\* unmapped key: no redaction region, no inserted text.
C2_NoValueUntouched ==
    Generating =>
        \A p \in 1..Len(doc) : \A m \in PageMatches(p) :
            (m.key \in DOMAIN mapping /\ NoValue(Row, mapping[m.key]))
                => m.src \notin Touched(p)

\* the part of C2 the code keeps: an absent column or a blank text is skipped
C2_AbsentOrBlankUntouched ==
    Generating =>
        \A p \in 1..Len(doc) : \A m \in PageMatches(p) :
            (/\ m.key \in DOMAIN mapping
             /\ \/ mapping[m.key] \notin DOMAIN Row
                \/ (~Row[mapping[m.key]].na /\ Strip(Row[mapping[m.key]].s) = <<>>))
                => m.src \notin Touched(p)

\* a saved document with a skipped token of each kind: column absent, blank text
C2_Witness ==
    /\ Generating
    /\ pc = "closed"
    /\ \E p, q \in 1..Len(doc) : \E m \in PageMatches(p), n \in PageMatches(q) :
          /\ m.key \in DOMAIN mapping /\ mapping[m.key] \notin DOMAIN Row
          /\ n.key \in DOMAIN mapping /\ mapping[n.key] \in DOMAIN Row
          /\ ~Row[mapping[n.key]].na /\ Strip(Row[mapping[n.key]].s) = <<>>


\* the insertion attempts made for the match at src on page p
Attempts(p, src, call) ==
    {e \in Range(doc[p].log) : e.src = src /\ e.call = call}

\* C3: in a saved document every redacted token has its replacement text,
\* placed by the primary or by the fallback insertion; a token that was not
\* redacted has none.  No token is left redacted without text.
C3_RedactedHasText ==
    pc = "closed" =>
        \A p \in 1..Len(doc) : \A m \in PageMatches(p) :
            IF m.src \in doc[p].redacted
            THEN Cardinality(Placed(p, m.src)) = 1
            ELSE Placed(p, m.src) = {}

\* C4: an occurrence whose primary insertion did not place the text (it
\* raised, or the box was rejected as too small) gets the fallback: one
\* insert_text at insert_rect's top-left moved down by one font size, in
\* "helv" and black.
C4_FallbackAfterPrimaryFailure ==
    (pc \in {"page", "closed"}) =>
        \A p \in 1..Len(doc) : \A e \in Range(doc[p].log) :
            (e.call = "insert_textbox" /\ e.outcome # "placed") =>
                \E f \in Attempts(p, e.src, "insert_text") :
                    /\ f.fontname = "helv"
                    /\ f.color = "black"
                    /\ f.text = e.text
                    /\ f.at = [x |-> e.at.x0,
                               y |-> e.at.y0 + e.fontsize * e.at.den,
                               den |-> e.at.den]

\* the part of C4 the code keeps: the fallback follows a primary insertion
\* that raised
C4_FallbackAfterPrimaryRaised ==
    (pc \in {"page", "closed"}) =>
        \A p \in 1..Len(doc) : \A e \in Range(doc[p].log) :
            (e.call = "insert_textbox" /\ e.outcome = "raised") =>
                \E f \in Attempts(p, e.src, "insert_text") :
                    /\ f.fontname = "helv"
                    /\ f.color = "black"
                    /\ f.text = e.text
                    /\ f.at = [x |-> e.at.x0,
                               y |-> e.at.y0 + e.fontsize * e.at.den,
                               den |-> e.at.den]

\* an occurrence of the document lost both insertions
BothFailed ==
    \E p \in 1..Len(doc) : \E e \in Range(doc[p].log) :
        e.call = "insert_text" /\ e.outcome = "raised"

\* C5: when both insertions fail for an occurrence the engine reports it, so
\* send_certificates never takes the document for generated: it records a
\* failure for the row and does not go on to send it.
C5_BothFailedIsReported ==
    /\ pc = "closed" => ~BothFailed
    /\ bpc = "send" => ~BothFailed

\* the occurrences of page p up to the first pass's end, as one list
RECURSIVE OccurrencesFrom(_, _)
OccurrencesFrom(p, j) ==
    IF j > Len(PageSpans(template[p])) THEN <<>>
    ELSE LET at == PageSpans(template[p])[j]
         IN  SpanOccurrences(template[p][at[1]].spans[at[2]], mapping, Row,
                             <<p, at[1], at[2]>>)
             \o OccurrencesFrom(p, j + 1)

PageOccurrences(p) == OccurrencesFrom(p, 1)

\* page p is behind the engine: its third pass is over
PagePassed(p) == pc = "closed" \/ (pc \in {"page", "locate", "redact", "insert",
                                            "fallback", "raised"} /\ p < page_no)

\* C6: a failed insertion never stops the work: every later occurrence of the
\* page is still attempted, every later page is still processed, and the
\* document is still saved; the call raises only where no insertion is
\* involved (open, text extraction, redaction commit, save).
C6_FailureDoesNotStop ==
    Generating =>
        /\ \A p \in 1..Len(doc) :
              PagePassed(p) =>
                  /\ doc[p].commits = 1
                  /\ \A d \in Range(PageOccurrences(p)) :
                        Attempts(p, d.src, "insert_textbox") # {}
        /\ (pc = "raised" /\ page_no \in 1..Len(doc)) => doc[page_no].log = <<>>
        /\ pc = "closed" => idx + 1 \in files

\* a saved document in which an occurrence lost both insertions, a later
\* occurrence of the same page was attempted, and so was one of a later page
C6_Witness ==
    /\ pc = "closed"
    /\ idx + 1 \in files
    /\ \E p, q \in 1..Len(doc) : \E i, j \in 1..Len(doc[p].log) :
          /\ p < q
          /\ i < j
          /\ doc[p].log[i].call = "insert_text"
          /\ doc[p].log[i].outcome = "raised"
          /\ doc[p].log[j].src # doc[p].log[i].src
          /\ doc[q].log # <<>>

\* C7: on every page the complete list of occurrences exists before the page
\* is touched; one redaction region is registered per occurrence; the
\* redactions are committed once; text is inserted only after that commit.
C7_TwoPhase ==
    Generating =>
        \A p \in 1..Len(doc) :
            LET touched == doc[p].annots # <<>> \/ doc[p].commits > 0
                               \/ doc[p].log # <<>>
            IN  /\ doc[p].commits <= 1
                /\ touched =>
                      /\ doc[p].located = PageOccurrences(p)
                      /\ (p = page_no => placeholder_data = PageOccurrences(p))
                /\ (p = page_no /\ pc = "locate") => ~touched
                /\ doc[p].log # <<>> => (doc[p].commits = 1 /\ doc[p].annots = <<>>)
                /\ doc[p].commits = 1 =>
                      /\ doc[p].redacted = {d.src : d \in Range(PageOccurrences(p))}
                      /\ doc[p].annots = <<>>
                /\ doc[p].commits = 0 =>
                      /\ doc[p].redacted = {}
                      /\ \A j \in 1..Len(doc[p].annots) :
                            /\ j <= Len(PageOccurrences(p))
                            /\ doc[p].annots[j].src = PageOccurrences(p)[j].src
                            /\ doc[p].annots[j].rect = PageOccurrences(p)[j].rect

\* the third pass of a page with two occurrences found in different spans
C7_Witness ==
    /\ pc = "insert"
    /\ k = 2
    /\ Len(placeholder_data) = 2
    /\ placeholder_data[1].src[3] # placeholder_data[2].src[3]
    /\ doc[page_no].commits = 1
    /\ Len(doc[page_no].log) >= 1


\* a failure entry of one of the three kinds of row failure: missing e-mail,
\* PDF generation error, e-mail send error
RowFailure(e) == e.error # "os.remove"

\* C8: a row that fails (missing e-mail, PDF generation error, e-mail send
\* error) gets exactly one failure entry naming it and never ends the batch:
\* every row is processed, and the rows sent are the rows processed less the
\* rows that failed, so one failing row among N leaves N-1 sent and one entry.
C8_RowFailureIsolated ==
    /\ idx <= Len(df)
    /\ bpc \in {"done", "error"} => idx = Len(df)
    /\ \A i \in 1..Len(failed) :
          /\ failed[i].row \in 1..idx
          /\ \A j \in 1..Len(failed) : i < j => failed[i].row < failed[j].row
    /\ \A r \in 1..idx :
          MissingEmail(df[r]) <=>
              \E e \in Range(failed) : e.row = r /\ e.reason = "Missing email"
    /\ bpc \in {"loop", "done", "error"} =>
          sent_count + Cardinality({e \in Range(failed) : RowFailure(e)}) = idx

\* a finished batch of at least two rows whose first row failed in PDF
\* generation and whose other rows were all sent
C8_Witness ==
    /\ bpc = "done"
    /\ Len(df) >= 2
    /\ Len(failed) = 1
    /\ failed[1].row = 1
    /\ failed[1].reason = "PDF generation failed"
    /\ sent_count = Len(df) - 1


(***************************************************************************)
(* The locator alone (lines 38-77) on one span: every text up to MaxLen    *)
(* characters, and every text made of up to MaxPieces pieces, in a span of *)
(* zero or positive width.                                                 *)
(***************************************************************************)
RECURSIVE Flatten(_)
Flatten(ps) == IF ps = <<>> THEN <<>> ELSE Head(ps) \o Flatten(Tail(ps))

Pieces ==
    {Tok(<<"A">>), Tok(<<"B">>), Tok(<<" ", "A", " ">>), Tok(<<"C">>),
     <<"<", "<">>, <<">", ">">>, <<"A">>, <<"NL">>}

Texts ==
    UNION {[1..n -> Alphabet] : n \in 0..MaxLen}
    \cup {Flatten(ps) : ps \in UNION {[1..n -> Pieces] : n \in 0..MaxPieces}}

SpanWidths == {0, 7}

SpanOfWidth(text, w) ==
    [text |-> text, x0 |-> 10, y0 |-> 20, x1 |-> 10 + w, y1 |-> 32,
     size |-> 12, font |-> "Times", color |-> "red"]

LocatorMapping == (<<"A">> :> "X") @@ (<<"B">> :> "Y") @@ (<<"D">> :> "Z")

InitLocate ==
    /\ template \in { << <<TextBlock(<<SpanOfWidth(t, w)>>)>> >> :
                         t \in Texts, w \in SpanWidths }
    /\ mapping = LocatorMapping
    /\ df \in {<<r>> : r \in RowKinds}
    /\ emailColumn = "Email"
    /\ bpc = "generate"
    /\ idx = 0
    /\ sent_count = 0
    /\ failed = <<>>
    /\ files = {}
    /\ pc = "locate"
    /\ page_no = 1
    /\ si = 1
    /\ placeholder_data = <<>>
    /\ k = 0
    /\ doc = <<FreshPage>>
    /\ ServerIdle

SpecLocate == InitLocate /\ [][LocateSpan \/ LocateDone]_vars

\* the span an occurrence was found in
SpanOf(d) == template[d.src[1]][d.src[2]].spans[d.src[3]]

\* C9: the sourceRect of every occurrence lies within the bounding rectangle
\* of its span: span.x0 <= x0 <= x1 <= span.x1, and it has the span's
\* vertical extent.
C9_RectWithinSpan ==
    \A d \in Range(placeholder_data) :
        /\ d.rect.den >= 1
        /\ SpanOf(d).x0 * d.rect.den <= d.rect.x0
        /\ d.rect.x0 <= d.rect.x1
        /\ d.rect.x1 <= SpanOf(d).x1 * d.rect.den
        /\ d.rect.y0 = SpanOf(d).y0 * d.rect.den
        /\ d.rect.y1 = SpanOf(d).y1 * d.rect.den

\* an occurrence strictly inside its span on both sides, and one that ends
\* where its span ends
C9_Witness ==
    \E d, e \in Range(placeholder_data) :
        /\ SpanOf(d).x0 * d.rect.den < d.rect.x0
        /\ d.rect.x0 < d.rect.x1
        /\ e.rect.x1 = SpanOf(e).x1 * e.rect.den
        /\ e.rect.x0 < e.rect.x1

\* the keys the mapping resolves to a non-empty text for the row
ResolvedKeys ==
    {key \in DOMAIN mapping : ReplacementText(key, mapping, Row) # <<>>}

\* the text <<K1>>...<<Kn>>
TokenRun(ks) == Flatten([i \in 1..Len(ks) |-> Tok(ks[i])])

\* C10: matching is non-greedy: every match starts at a `<<` and ends at the
\* first `>>` after it; matches of a span do not overlap; and a span that is
\* n tokens <<K1>>...<<Kn>> with resolved keys yields n occurrences, left to
\* right, each with its own key's replacement text.
C10_NonGreedy ==
    (pc = "redact" /\ Len(Spans) = 1) =>
        LET text == Page[1].spans[1].text
            ms == FindIter(text)
        IN  /\ \A i \in 1..Len(ms) :
                  /\ 0 <= ms[i].start
                  /\ ms[i].start + 4 <= ms[i].end
                  /\ ms[i].end <= Len(text)
                  /\ text[ms[i].start + 1] = "<" /\ text[ms[i].start + 2] = "<"
                  /\ text[ms[i].end - 1] = ">" /\ text[ms[i].end] = ">"
                  /\ \A j \in (ms[i].start + 3)..(ms[i].end - 2) :
                        ~(text[j] = ">" /\ text[j + 1] = ">")
            /\ \A i, j \in 1..Len(ms) : i < j => ms[i].end <= ms[j].start
            /\ \A n \in 1..(Len(text) \div 4) : \A ks \in [1..n -> ResolvedKeys] :
                  text = TokenRun(ks) =>
                      /\ Len(placeholder_data) = n
                      /\ \A i \in 1..n :
                            /\ placeholder_data[i].key = ks[i]
                            /\ placeholder_data[i].text =
                                   ReplacementText(ks[i], mapping, Row)
                            /\ placeholder_data[i].src[4] =
                                   Len(TokenRun(SubSeq(ks, 1, i - 1)))

\* the span <<A>><<B>> located as two occurrences with different texts
C10_Witness ==
    /\ pc = "redact"
    /\ Len(Spans) = 1
    /\ Page[1].spans[1].text = Tok(<<"A">>) \o Tok(<<"B">>)
    /\ Len(placeholder_data) = 2
    /\ placeholder_data[1].text # placeholder_data[2].text


\* the span the match at src was found in
SpanAt(src) == template[src[1]][src[2]].spans[src[3]]

\* every occurrence the engine holds or has recorded for the open document
Occurrences ==
    Range(placeholder_data) \cup UNION {Range(doc[p].located) : p \in 1..Len(doc)}

\* every insertion attempt made on the open document
Insertions == UNION {Range(doc[p].log) : p \in 1..Len(doc)}

C14_RowsAccountedOnce ==
    bpc \in {"loop", "done", "error"} => sent_count + Len(failed) = idx

\* the part of C14 the code keeps: a row is never left out, and only a row
\* whose file could not be removed after a successful send is counted twice
C14_RowsAccountedAtLeastOnce ==
    bpc \in {"loop", "done", "error"} =>
        sent_count + Len(failed)
            = idx + Cardinality({e \in Range(failed) : e.error = "os.remove"})


(***************************************************************************)
(* The handlers of concurrent requests.  A value held in session_data or   *)
(* in a handler's locals is the caller whose request supplied it: caller   *)
(* c's template, c's CSV, c's mapping.  upload_template, upload_csv and    *)
(* save_mapping are coroutines of the one event loop; generate_preview and *)
(* send_certificates are plain functions, each run on a worker thread, so  *)
(* their statements interleave with everything else.  send_certificates is *)
(* seen here as the sequence of files it has replace_placeholders_in_pdf   *)
(* write.                                                                  *)
(***************************************************************************)
one == <<template, mapping, df, emailColumn, bpc, idx, sent_count, failed, files,
         pc, page_no, si, placeholder_data, k, doc>>

SaveStates == {"save_csv_file", "save_mappings", "save_email_column"}

\* no coroutine is between two of its statements: the event loop is free
LoopFree == \A d \in Callers : hpc[d] \notin SaveStates

\* upload_template: session_data["template_file"] = file.filename
UploadTemplate(c) ==
    /\ hpc[c] = "idle"
    /\ LoopFree
    /\ session_data' = [session_data EXCEPT !.template_file = c]
    /\ UNCHANGED <<one, hpc, locals>>

\* upload_csv: session_data["csv_file"] = file.filename
UploadCsv(c) ==
    /\ hpc[c] = "idle"
    /\ LoopFree
    /\ session_data' = [session_data EXCEPT !.csv_file = c]
    /\ UNCHANGED <<one, hpc, locals>>

\* save_mapping, line 18: session_data["template_file"] = data.templateFile
SaveTemplateFile(c) ==
    /\ hpc[c] = "idle"
    /\ LoopFree
    /\ session_data' = [session_data EXCEPT !.template_file = c]
    /\ hpc' = [hpc EXCEPT ![c] = "save_csv_file"]
    /\ UNCHANGED <<one, locals>>

\* save_mapping, line 19: session_data["csv_file"] = data.csvFile
SaveCsvFile(c) ==
    /\ hpc[c] = "save_csv_file"
    /\ session_data' = [session_data EXCEPT !.csv_file = c]
    /\ hpc' = [hpc EXCEPT ![c] = "save_mappings"]
    /\ UNCHANGED <<one, locals>>

\* save_mapping, line 20: session_data["mappings"] = data.mappings
SaveMappings(c) ==
    /\ hpc[c] = "save_mappings"
    /\ session_data' = [session_data EXCEPT !.mappings = c]
    /\ hpc' = [hpc EXCEPT ![c] = "save_email_column"]
    /\ UNCHANGED <<one, locals>>

\* save_mapping, lines 21-26: session_data["email_column"] = data.emailColumn
SaveEmailColumn(c) ==
    /\ hpc[c] = "save_email_column"
    /\ session_data' = [session_data EXCEPT !.email_column = c]
    /\ hpc' = [hpc EXCEPT ![c] = "idle"]
    /\ UNCHANGED <<one, locals>>

\* generate_preview, line 144: template_file = session_data.get("template_file")
PreviewReadTemplate(c) ==
    /\ hpc[c] = "idle"
    /\ locals' = [locals EXCEPT ![c].template_file = session_data.template_file]
    /\ hpc' = [hpc EXCEPT ![c] = "read_csv_file"]
    /\ UNCHANGED <<one, session_data>>

\* generate_preview, line 145: csv_file = session_data.get("csv_file")
PreviewReadCsv(c) ==
    /\ hpc[c] = "read_csv_file"
    /\ locals' = [locals EXCEPT ![c].csv_file = session_data.csv_file]
    /\ hpc' = [hpc EXCEPT ![c] = "read_mappings"]
    /\ UNCHANGED <<one, session_data>>

\* generate_preview, line 146: mappings = session_data.get("mappings")
PreviewReadMappings(c) ==
    /\ hpc[c] = "read_mappings"
    /\ locals' = [locals EXCEPT ![c].mappings = session_data.mappings]
    /\ hpc' = [hpc EXCEPT ![c] = "check"]
    /\ UNCHANGED <<one, session_data>>

\* generate_preview, lines 148-180: 400 when a value is missing, a file does
\* not exist or the CSV is empty; otherwise replace_placeholders_in_pdf is
\* called with the values read and OUTPUT_DIR/preview.pdf
PreviewGenerate(c) ==
    /\ hpc[c] = "check"
    /\ \E ok \in BOOLEAN :
          IF /\ ok
             /\ locals[c].template_file # 0
             /\ locals[c].csv_file # 0
             /\ locals[c].mappings # 0
          THEN /\ hpc' = [hpc EXCEPT ![c] = "preview"]
               /\ UNCHANGED locals
          ELSE /\ hpc' = [hpc EXCEPT ![c] = "idle"]
               /\ locals' = [locals EXCEPT ![c] = NoLocals]
    /\ UNCHANGED <<one, session_data>>

\* generate_preview, lines 181-190: the call is over, the file is returned
PreviewReturn(c) ==
    /\ hpc[c] = "preview"
    /\ hpc' = [hpc EXCEPT ![c] = "idle"]
    /\ locals' = [locals EXCEPT ![c] = NoLocals]
    /\ UNCHANGED <<one, session_data>>

\* send_certificates, lines 223-243: template, CSV and mapping are the request's
SendStart(c) ==
    /\ hpc[c] = "idle"
    /\ \E n \in 0..MaxRows :
          locals' = [locals EXCEPT ![c] =
                        [template_file |-> c, csv_file |-> c, mappings |-> c,
                         idx |-> 0, rows |-> n]]
    /\ hpc' = [hpc EXCEPT ![c] = "rows"]
    /\ UNCHANGED <<one, session_data>>

\* send_certificates, lines 246-249: a row without e-mail address
SendSkipRow(c) ==
    /\ hpc[c] = "rows"
    /\ locals[c].idx < locals[c].rows
    /\ locals' = [locals EXCEPT ![c].idx = @ + 1]
    /\ UNCHANGED <<one, session_data, hpc>>

\* send_certificates, lines 251-258: replace_placeholders_in_pdf is called
\* with OUTPUT_DIR/certificate_{idx+1}.pdf
SendGenerate(c) ==
    /\ hpc[c] = "rows"
    /\ locals[c].idx < locals[c].rows
    /\ hpc' = [hpc EXCEPT ![c] = "certificate"]
    /\ UNCHANGED <<one, session_data, locals>>

\* send_certificates, lines 259-291: the call is over; the rest of the row
SendRowDone(c) ==
    /\ hpc[c] = "certificate"
    /\ hpc' = [hpc EXCEPT ![c] = "rows"]
    /\ locals' = [locals EXCEPT ![c].idx = @ + 1]
    /\ UNCHANGED <<one, session_data>>

\* send_certificates, lines 293-313
SendReturn(c) ==
    /\ hpc[c] = "rows"
    /\ locals[c].idx >= locals[c].rows
    /\ hpc' = [hpc EXCEPT ![c] = "idle"]
    /\ locals' = [locals EXCEPT ![c] = NoLocals]
    /\ UNCHANGED <<one, session_data>>

InitServer ==
    /\ template = TemplateOne
    /\ mapping = LocatorMapping
    /\ df = <<>>
    /\ emailColumn = "Email"
    /\ bpc = "request"
    /\ idx = 0
    /\ sent_count = 0
    /\ failed = <<>>
    /\ files = {}
    /\ pc = "idle"
    /\ page_no = 0
    /\ si = 0
    /\ placeholder_data = <<>>
    /\ k = 0
    /\ doc = <<>>
    /\ ServerIdle

NextServer ==
    \E c \in Callers :
        \/ UploadTemplate(c) \/ UploadCsv(c)
        \/ SaveTemplateFile(c) \/ SaveCsvFile(c) \/ SaveMappings(c)
        \/ SaveEmailColumn(c)
        \/ PreviewReadTemplate(c) \/ PreviewReadCsv(c) \/ PreviewReadMappings(c)
        \/ PreviewGenerate(c) \/ PreviewReturn(c)
        \/ SendStart(c) \/ SendSkipRow(c) \/ SendGenerate(c) \/ SendRowDone(c)
        \/ SendReturn(c)

SpecServer == InitServer /\ [][NextServer]_vars

\* caller c's handler is inside a call of replace_placeholders_in_pdf
InCall(c) == hpc[c] \in {"preview", "certificate"}

\* the output_path of that call
OutputPath(c) ==
    IF hpc[c] = "preview" THEN <<"preview.pdf">>
    ELSE <<"certificate", locals[c].idx + 1, ".pdf">>

\* C12: the template, the CSV and the mapping a call generates from are the
\* ones of the request that makes the call: whatever the interleaving, never
\* another caller's, never a mix of values of different requests.
C12_OwnInputsOnly ==
    \A c \in Callers :
        InCall(c) =>
            /\ locals[c].template_file = c
            /\ locals[c].csv_file = c
            /\ locals[c].mappings = c

\* the part of C12 the code keeps: send_certificates generates from its own
\* request's values
C12_SendUsesRequest ==
    \A c \in Callers :
        hpc[c] = "certificate" =>
            /\ locals[c].template_file = c
            /\ locals[c].csv_file = c
            /\ locals[c].mappings = c

\* C13: two calls of replace_placeholders_in_pdf in progress at the same
\* time never have the same output path.
C13_DistinctOutputPaths ==
    \A c, d \in Callers :
        (c # d /\ InCall(c) /\ InCall(d)) => OutputPath(c) # OutputPath(d)

=============================================================================
